---- MODULE Spec2Model ----
(***************************************************************************)
(* crabodon: extraction of Mastodon status content.                        *)
(*                                                                         *)
(* content/visit.rs walks the markup tree depth first and notifies a       *)
(* visitor; content/parse.rs is the visitor that builds the list of        *)
(* paragraphs.  The recursion of Parser::visit is an explicit stack of     *)
(* open visit() calls.  The markup tree is supplied by the environment     *)
(* one node at a time, as node.children() yields it; every node handed to  *)
(* visit() is recorded in doc, in document order.                          *)
(*                                                                         *)
(* Strings are sequences of characters.  The characters of the markup are  *)
(* natural numbers; attribute values are sequences of atoms, the atom " "  *)
(* being the space character and every other atom a run of non-space       *)
(* characters.                                                             *)
(***************************************************************************)
EXTENDS Integers, Sequences, FiniteSets, TLC

\* Number of nodes below the document root.
MaxNodes == 4

\* The largest number of calls made on a ParseVisitor driven call by call.
MaxCalls == 5

\* '…' (U+2026), the character pushed for an ellipsis span.
EllipsisChar == 8230

\* Option<T>: None is the empty sequence, Some(x) the sequence holding x.
None == <<>>

Some(x) == <<x>>

unwrap(opt) == opt[1]

----------------------------------------------------------------------------
(* content.rs: the kinds of links *)

Link(href) == [variant |-> "Link", href |-> href]

Hashtag(href, tag) == [variant |-> "Hashtag", href |-> href, tag |-> tag]

Mention(href, host, user) ==
    [variant |-> "Mention", href |-> href, host |-> host, user |-> user]

----------------------------------------------------------------------------
(* The url crate, on the hrefs the model uses: whether Url::parse accepts  *)
(* the string, Url::host_str and Url::path_segments of the result. A host  *)
(* and a path segment are strings, written as sequences of runs of         *)
(* characters, "@" being a run of its own. An http(s) URL has the path "/" *)
(* at least, so path_segments yields one empty segment for it; a URL that  *)
(* cannot be a base (mailto:) has neither host nor segments.               *)

UrlParse(href) ==
    CASE href = "https://dice.camp/tags/ttrpg" ->
            [ok |-> TRUE, host |-> Some(<<"dice.camp">>),
             segments |-> Some(<< <<"tags">>, <<"ttrpg">> >>)]
      [] href = "https://mastodon.org.uk/@cybette" ->
            [ok |-> TRUE, host |-> Some(<<"mastodon.org.uk">>),
             segments |-> Some(<< <<"@", "cybette">> >>)]
      [] href = "https://mastodon.org.uk/users/cybette" ->
            [ok |-> TRUE, host |-> Some(<<"mastodon.org.uk">>),
             segments |-> Some(<< <<"users">>, <<"cybette">> >>)]
      [] href = "https://example.com/about" ->
            [ok |-> TRUE, host |-> Some(<<"example.com">>),
             segments |-> Some(<< <<"about">> >>)]
      [] href = "https://example.com" ->
            [ok |-> TRUE, host |-> Some(<<"example.com">>),
             segments |-> Some(<< <<>> >>)]
      [] href = "https://dice.camp/tags/" ->
            [ok |-> TRUE, host |-> Some(<<"dice.camp">>),
             segments |-> Some(<< <<"tags">>, <<>> >>)]
      [] href = "unix:/run/foo.socket" ->
            [ok |-> TRUE, host |-> None,
             segments |-> Some(<< <<"run">>, <<"foo.socket">> >>)]
      [] href = "mailto:cybette@mastodon.org.uk" ->
            [ok |-> TRUE, host |-> None, segments |-> None]
      [] OTHER ->
            [ok |-> FALSE, host |-> None, segments |-> None]

\* Iterator::last
last(items) == IF items = <<>> THEN None ELSE Some(items[Len(items)])

----------------------------------------------------------------------------
(* Parser::find_visit_kind and the href classification *)

\* str::split(' '): the pieces between the spaces, empty pieces included.
RECURSIVE SplitFrom(_, _, _)
SplitFrom(s, i, piece) ==
    IF i > Len(s) THEN {piece}
    ELSE IF s[i] = " " THEN {piece} \cup SplitFrom(s, i + 1, <<>>)
    ELSE SplitFrom(s, i + 1, Append(piece, s[i]))

split(s) == SplitFrom(s, 1, <<>>)

\* Option::unwrap_or
unwrap_or(opt, default) == IF opt = None THEN default ELSE unwrap(opt)

\* parse_special_href without the final else: an a element that is no
\* hashtag is read as a mention.
parse_special_href_NoElse(href, classes) ==
    LET url == UrlParse(href) IN
    IF ~url.ok THEN None
    ELSE IF <<"hashtag">> \in classes THEN
        IF url.segments = None THEN None
        ELSE IF last(unwrap(url.segments)) = None THEN None
        ELSE Some(Hashtag(href, unwrap(last(unwrap(url.segments)))))
    ELSE
        IF url.host = None THEN None
        ELSE IF url.segments = None THEN None
        ELSE IF last(unwrap(url.segments)) = None THEN None
        ELSE Some(Mention(href, unwrap(url.host),
                          unwrap(last(unwrap(url.segments)))))

\* parse_special_href taking the first path segment as the tag.
parse_special_href_FirstSegment(href, classes) ==
    LET url == UrlParse(href) IN
    IF ~url.ok THEN None
    ELSE IF <<"hashtag">> \in classes THEN
        IF url.segments = None THEN None
        ELSE IF last(unwrap(url.segments)) = None THEN None
        ELSE Some(Hashtag(href, unwrap(url.segments)[1]))
    ELSE IF <<"mention">> \in classes THEN
        IF url.host = None THEN None
        ELSE IF url.segments = None THEN None
        ELSE IF last(unwrap(url.segments)) = None THEN None
        ELSE Some(Mention(href, unwrap(url.host),
                          unwrap(last(unwrap(url.segments)))))
    ELSE None

\* parse_special_href with an empty host where the URL has none.
parse_special_href_NoHostCheck(href, classes) ==
    LET url == UrlParse(href) IN
    IF ~url.ok THEN None
    ELSE IF <<"hashtag">> \in classes THEN
        IF url.segments = None THEN None
        ELSE IF last(unwrap(url.segments)) = None THEN None
        ELSE Some(Hashtag(href, unwrap(last(unwrap(url.segments)))))
    ELSE IF <<"mention">> \in classes THEN
        IF url.segments = None THEN None
        ELSE IF last(unwrap(url.segments)) = None THEN None
        ELSE Some(Mention(href, unwrap_or(url.host, <<>>),
                          unwrap(last(unwrap(url.segments)))))
    ELSE None

\* parse_special_href looking for "mention" before "hashtag".
parse_special_href_MentionFirst(href, classes) ==
    LET url == UrlParse(href) IN
    IF ~url.ok THEN None
    ELSE IF <<"mention">> \in classes THEN
        IF url.host = None THEN None
        ELSE IF url.segments = None THEN None
        ELSE IF last(unwrap(url.segments)) = None THEN None
        ELSE Some(Mention(href, unwrap(url.host),
                          unwrap(last(unwrap(url.segments)))))
    ELSE IF <<"hashtag">> \in classes THEN
        IF url.segments = None THEN None
        ELSE IF last(unwrap(url.segments)) = None THEN None
        ELSE Some(Hashtag(href, unwrap(last(unwrap(url.segments)))))
    ELSE None

parse_special_href(href, classes) ==
    LET url == UrlParse(href) IN
    IF ~url.ok THEN None
    ELSE IF <<"hashtag">> \in classes THEN
        IF url.segments = None THEN None
        ELSE IF last(unwrap(url.segments)) = None THEN None
        ELSE Some(Hashtag(href, unwrap(last(unwrap(url.segments)))))
    ELSE IF <<"mention">> \in classes THEN
        IF url.host = None THEN None
        ELSE IF url.segments = None THEN None
        ELSE IF last(unwrap(url.segments)) = None THEN None
        ELSE Some(Mention(href, unwrap(url.host),
                          unwrap(last(unwrap(url.segments)))))
    ELSE None

\* parse_href falling back to a link with an empty href.
parse_href_EmptyFallback(href, classes) ==
    LET element == parse_special_href(href, classes) IN
    IF element # None THEN unwrap(element) ELSE Link("")

parse_href(href, classes) ==
    LET element == parse_special_href(href, classes) IN
    IF element # None THEN unwrap(element) ELSE Link(href)

find_visit_kind_element(element) ==
    CASE element.name = "p" -> [tag |-> "Paragraph"]
      [] element.name = "a" ->
            [tag |-> "Link",
             link |-> parse_href(unwrap_or(element.href, ""),
                                 split(unwrap_or(element.class, <<>>)))]
      [] element.name = "span" ->
            LET class == unwrap_or(element.class, <<>>) IN
            CASE class = <<"invisible">> -> [tag |-> "Nothing"]
              [] class = <<"ellipsis">> -> [tag |-> "Ellipsis"]
              [] OTHER -> [tag |-> "Children"]
      [] element.name = "br" -> [tag |-> "NewLine"]
      [] OTHER -> [tag |-> "Children"]

find_visit_kind(node) ==
    CASE node.data = "Element" -> find_visit_kind_element(node)
      [] node.data = "Text" -> [tag |-> "Text", text |-> node.text]
      [] OTHER -> [tag |-> "Children"]

----------------------------------------------------------------------------
(* The nodes the markup parser hands over *)

Element(name, class, href) ==
    [data |-> "Element", name |-> name, class |-> class, href |-> href,
     text |-> <<>>]

\* The n-th node of the document, when it is a text node: one letter, 'a' + n - 2
\* (the root is node 1), so that every text node of a document differs.
TextNode(n) ==
    [data |-> "Text", name |-> "", class |-> None, href |-> None,
     text |-> <<95 + n>>]

DocumentNode ==
    [data |-> "Document", name |-> "", class |-> None, href |-> None,
     text |-> <<>>]

Elements ==
    { Element("p", None, None),
      Element("br", None, None),
      Element("a", None, Some("https://example.com/about")),
      Element("a", Some(<<"hashtag">>), Some("https://dice.camp/tags/ttrpg")),
      Element("span", None, None),
      Element("span", Some(<<"invisible">>), None),
      Element("span", Some(<<"ellipsis">>), None),
      Element("div", None, None) }

----------------------------------------------------------------------------
(* parse.rs: ParseVisitor *)

ParseVisitor_default ==
    [paragraphs |-> <<>>, paragraph_count |-> 0, link_count |-> 0,
     current_paragraph |-> <<>>, current_link |-> <<>>]

Text(s) == [node |-> "Text", text |-> s]

NewLine == [node |-> "NewLine"]

LinkNode(kind, children) == [node |-> "Link", kind |-> kind, children |-> children]

\* Subtraction that goes below zero.
saturating_sub_Plain(n, m) == n - m

saturating_sub(n, m) == IF n >= m THEN n - m ELSE 0

\* text() without the test of paragraph_count.
text_Unguarded(self, s) ==
    IF self.link_count > 0
    THEN [self EXCEPT !.current_link = Append(@, Text(s))]
    ELSE [self EXCEPT !.current_paragraph = Append(@, Text(s))]

text(self, s) ==
    IF self.paragraph_count > 0 THEN
        IF self.link_count > 0
        THEN [self EXCEPT !.current_link = Append(@, Text(s))]
        ELSE [self EXCEPT !.current_paragraph = Append(@, Text(s))]
    ELSE self

\* new_line() that pushes to the paragraph inside a link too.
new_line_ToParagraph(self) ==
    IF self.paragraph_count > 0
    THEN [self EXCEPT !.current_paragraph = Append(@, NewLine)]
    ELSE self

new_line(self) ==
    IF self.paragraph_count > 0 THEN
        IF self.link_count > 0
        THEN [self EXCEPT !.current_link = Append(@, NewLine)]
        ELSE [self EXCEPT !.current_paragraph = Append(@, NewLine)]
    ELSE self

begin_paragraph(self) == [self EXCEPT !.paragraph_count = @ + 1]

end_paragraph(self) ==
    LET count == saturating_sub(self.paragraph_count, 1) IN
    IF count = 0
    THEN [self EXCEPT !.paragraph_count = count,
                      !.current_paragraph = <<>>,
                      !.paragraphs = Append(@, self.current_paragraph)]
    ELSE [self EXCEPT !.paragraph_count = count]

\* begin_link() that does not count.
begin_link_NoCount(self, link) == self

begin_link(self, link) == [self EXCEPT !.link_count = @ + 1]

\* end_link() that puts the link at the front of the paragraph.
end_link_Front(self, link) ==
    LET count == saturating_sub(self.link_count, 1) IN
    IF count = 0
    THEN [self EXCEPT !.link_count = count,
                      !.current_link = <<>>,
                      !.current_paragraph =
                          <<LinkNode(link, self.current_link)>> \o @]
    ELSE [self EXCEPT !.link_count = count]

\* end_link() that copies current_link without taking it.
end_link_NoTake(self, link) ==
    LET count == saturating_sub(self.link_count, 1) IN
    IF count = 0
    THEN [self EXCEPT !.link_count = count,
                      !.current_paragraph =
                          Append(@, LinkNode(link, self.current_link))]
    ELSE [self EXCEPT !.link_count = count]

\* end_link() that makes a Link node whatever the count.
end_link_Always(self, link) ==
    LET count == saturating_sub(self.link_count, 1) IN
    [self EXCEPT !.link_count = count,
                 !.current_link = <<>>,
                 !.current_paragraph =
                     Append(@, LinkNode(link, self.current_link))]

end_link(self, link) ==
    LET count == saturating_sub(self.link_count, 1) IN
    IF count = 0
    THEN [self EXCEPT !.link_count = count,
                      !.current_link = <<>>,
                      !.current_paragraph =
                          Append(@, LinkNode(link, self.current_link))]
    ELSE [self EXCEPT !.link_count = count]

finalize(self) == self.paragraphs

----------------------------------------------------------------------------
(* visit.rs: the Parser and the calls it makes on its visitor *)

VARIABLES
    doc,            \* the nodes handed to visit() so far: [node, parent]
    stack,          \* the open visit() calls: [node, kind], innermost last
    pc,             \* "start", "visit" (inside Parser::visit), "done"
    current_text,   \* Parser::current_text
    visitor,        \* Parser::visitor, a ParseVisitor
    calls,          \* every call made on the visitor, in order
    output          \* Some(what visitor.finalize() returned), None before

vars == <<doc, stack, pc, current_text, visitor, calls, output>>

\* The parser with its visitor, as commit_string sees it.
Self == [visitor |-> visitor, calls |-> calls, current_text |-> current_text]

\* commit_string() that reads current_text without taking it.
commit_string_NoTake(self) ==
    IF self.current_text # <<>>
    THEN [visitor |-> text(self.visitor, self.current_text),
          calls |-> Append(self.calls, [call |-> "text", text |-> self.current_text]),
          current_text |-> self.current_text]
    ELSE self

commit_string(self) ==
    IF self.current_text # <<>>
    THEN [visitor |-> text(self.visitor, self.current_text),
          calls |-> Append(self.calls, [call |-> "text", text |-> self.current_text]),
          current_text |-> <<>>]
    ELSE [self EXCEPT !.current_text = <<>>]

Init ==
    /\ doc = <<>>
    /\ stack = <<>>
    /\ pc = "start"
    /\ current_text = <<>>
    /\ visitor = ParseVisitor_default
    /\ calls = <<>>
    /\ output = None

\* The nodes visit() may be called with next: the document at first, then any
\* child of the innermost open node.
NextNodes ==
    IF pc = "start" THEN {DocumentNode}
    ELSE IF pc = "visit" /\ stack # <<>> /\ Len(doc) <= MaxNodes
    THEN Elements \cup {TextNode(Len(doc) + 1)}
    ELSE {}

Parent == IF stack = <<>> THEN 0 ELSE stack[Len(stack)].node

\* visit(node) is entered: the node joins the document.
Enter(node) ==
    /\ doc' = Append(doc, [node |-> node, parent |-> Parent])
    /\ pc' = "visit"

\* visit_children(node) starts: the call stays open until the children are done.
Descend(kind) == stack' = Append(stack, [node |-> Len(doc) + 1, kind |-> kind])

Top == stack[Len(stack)]

\* visit_children() that does not return to its caller.
Return_Stay == stack' = stack

Return == stack' = SubSeq(stack, 1, Len(stack) - 1)

\* The Nothing arm with a commit_string().
VisitNothing_Flush ==
    \E node \in NextNodes :
        /\ find_visit_kind(node).tag = "Nothing"
        /\ Enter(node)
        /\ LET self == commit_string(Self) IN
            /\ visitor' = self.visitor
            /\ calls' = self.calls
            /\ current_text' = self.current_text
        /\ UNCHANGED <<stack, output>>

VisitNothing ==
    \E node \in NextNodes :
        /\ find_visit_kind(node).tag = "Nothing"
        /\ Enter(node)
        /\ UNCHANGED <<stack, current_text, visitor, calls, output>>

\* The Children arm with a commit_string() before visit_children().
VisitChildren_Flush ==
    \E node \in NextNodes :
        /\ find_visit_kind(node).tag = "Children"
        /\ Enter(node)
        /\ LET self == commit_string(Self) IN
            /\ visitor' = self.visitor
            /\ calls' = self.calls
            /\ current_text' = self.current_text
        /\ Descend(find_visit_kind(node))
        /\ UNCHANGED output

VisitChildren ==
    \E node \in NextNodes :
        /\ find_visit_kind(node).tag = "Children"
        /\ Enter(node)
        /\ Descend(find_visit_kind(node))
        /\ UNCHANGED <<current_text, visitor, calls, output>>

EndChildren ==
    /\ pc = "visit" /\ stack # <<>>
    /\ Top.kind.tag = "Children"
    /\ Return
    /\ UNCHANGED <<doc, pc, current_text, visitor, calls, output>>

VisitText ==
    \E node \in NextNodes :
        /\ find_visit_kind(node).tag = "Text"
        /\ Enter(node)
        /\ current_text' = current_text \o find_visit_kind(node).text
        /\ UNCHANGED <<stack, visitor, calls, output>>

\* The NewLine arm without its commit_string().
VisitNewLine_NoFlush ==
    \E node \in NextNodes :
        /\ find_visit_kind(node).tag = "NewLine"
        /\ Enter(node)
        /\ visitor' = new_line(visitor)
        /\ calls' = Append(calls, [call |-> "new_line"])
        /\ UNCHANGED <<stack, current_text, output>>

VisitNewLine ==
    \E node \in NextNodes :
        /\ find_visit_kind(node).tag = "NewLine"
        /\ Enter(node)
        /\ LET self == commit_string(Self) IN
            /\ visitor' = new_line(self.visitor)
            /\ calls' = Append(self.calls, [call |-> "new_line"])
            /\ current_text' = self.current_text
        /\ UNCHANGED <<stack, output>>

VisitEllipsis ==
    \E node \in NextNodes :
        /\ find_visit_kind(node).tag = "Ellipsis"
        /\ Enter(node)
        /\ Descend(find_visit_kind(node))
        /\ UNCHANGED <<current_text, visitor, calls, output>>

\* The Ellipsis arm with a commit_string() after the push.
EndEllipsis_Flush ==
    /\ pc = "visit" /\ stack # <<>>
    /\ Top.kind.tag = "Ellipsis"
    /\ Return
    /\ LET self == commit_string([Self EXCEPT
                        !.current_text = Append(@, EllipsisChar)]) IN
        /\ visitor' = self.visitor
        /\ calls' = self.calls
        /\ current_text' = self.current_text
    /\ UNCHANGED <<doc, pc, output>>

EndEllipsis ==
    /\ pc = "visit" /\ stack # <<>>
    /\ Top.kind.tag = "Ellipsis"
    /\ Return
    /\ current_text' = Append(current_text, EllipsisChar)
    /\ UNCHANGED <<doc, pc, visitor, calls, output>>

VisitParagraph ==
    \E node \in NextNodes :
        /\ find_visit_kind(node).tag = "Paragraph"
        /\ Enter(node)
        /\ LET self == commit_string(Self) IN
            /\ visitor' = begin_paragraph(self.visitor)
            /\ calls' = Append(self.calls, [call |-> "begin_paragraph"])
            /\ current_text' = self.current_text
        /\ Descend(find_visit_kind(node))
        /\ UNCHANGED output

EndParagraph ==
    /\ pc = "visit" /\ stack # <<>>
    /\ Top.kind.tag = "Paragraph"
    /\ LET self == commit_string(Self) IN
        /\ visitor' = end_paragraph(self.visitor)
        /\ calls' = Append(self.calls, [call |-> "end_paragraph"])
        /\ current_text' = self.current_text
    /\ Return
    /\ UNCHANGED <<doc, pc, output>>

\* The Link arm up to visit_children(), for the given a element.
VisitLinkNode(node) ==
    /\ find_visit_kind(node).tag = "Link"
    /\ Enter(node)
    /\ LET link == find_visit_kind(node).link
           self == commit_string(Self) IN
        /\ visitor' = begin_link(self.visitor, link)
        /\ calls' = Append(self.calls, [call |-> "begin_link", link |-> link])
        /\ current_text' = self.current_text
    /\ Descend(find_visit_kind(node))
    /\ UNCHANGED output

VisitLink == \E node \in NextNodes : VisitLinkNode(node)

\* end_link is called with a plain link made of the href, not with the kind
\* begin_link was called with.
EndLink_PlainLink ==
    /\ pc = "visit" /\ stack # <<>>
    /\ Top.kind.tag = "Link"
    /\ LET link == Link(Top.kind.link.href)
           self == commit_string(Self) IN
        /\ visitor' = end_link(self.visitor, link)
        /\ calls' = Append(self.calls, [call |-> "end_link", link |-> link])
        /\ current_text' = self.current_text
    /\ Return
    /\ UNCHANGED <<doc, pc, output>>

EndLink ==
    /\ pc = "visit" /\ stack # <<>>
    /\ Top.kind.tag = "Link"
    /\ LET link == Top.kind.link
           self == commit_string(Self) IN
        /\ visitor' = end_link(self.visitor, link)
        /\ calls' = Append(self.calls, [call |-> "end_link", link |-> link])
        /\ current_text' = self.current_text
    /\ Return
    /\ UNCHANGED <<doc, pc, output>>

\* parse() without the commit_string() before finalize().
Finalize_NoFlush ==
    /\ pc = "visit" /\ stack = <<>>
    /\ output' = Some(finalize(visitor))
    /\ calls' = Append(calls, [call |-> "finalize"])
    /\ pc' = "done"
    /\ UNCHANGED <<doc, stack, visitor, current_text>>

\* Parser::parse, once visit(node) has returned.
Finalize ==
    /\ pc = "visit" /\ stack = <<>>
    /\ LET self == commit_string(Self) IN
        /\ output' = Some(finalize(self.visitor))
        /\ visitor' = self.visitor
        /\ calls' = Append(self.calls, [call |-> "finalize"])
        /\ current_text' = self.current_text
    /\ pc' = "done"
    /\ UNCHANGED <<doc, stack>>

Next ==
    \/ VisitNothing
    \/ VisitChildren
    \/ EndChildren
    \/ VisitText
    \/ VisitNewLine
    \/ VisitEllipsis
    \/ EndEllipsis
    \/ VisitParagraph
    \/ EndParagraph
    \/ VisitLink
    \/ EndLink
    \/ Finalize

Spec == Init /\ [][Next]_vars

\* visit_content runs on one thread from the call to the return: a step that
\* can be taken is taken.
FairSpec == Spec /\ WF_vars(Next)

----------------------------------------------------------------------------
(* A ParseVisitor driven call by call: any caller of the Visit trait, in   *)
(* any order, unmatched end calls included, up to finalize(), which takes  *)
(* the visitor.                                                            *)

CallTexts == {<<97>>}

CallLinks ==
    { Link("https://example.com/about"),
      Hashtag("https://dice.camp/tags/ttrpg", <<"ttrpg">>) }

\* One more call can be made on the visitor.
Callable == pc = "start" /\ Len(calls) < MaxCalls

CallText ==
    \E s \in CallTexts :
        /\ Callable
        /\ visitor' = text(visitor, s)
        /\ calls' = Append(calls, [call |-> "text", text |-> s])
        /\ UNCHANGED <<doc, stack, pc, current_text, output>>

CallNewLine ==
    /\ Callable
    /\ visitor' = new_line(visitor)
    /\ calls' = Append(calls, [call |-> "new_line"])
    /\ UNCHANGED <<doc, stack, pc, current_text, output>>

CallBeginParagraph ==
    /\ Callable
    /\ visitor' = begin_paragraph(visitor)
    /\ calls' = Append(calls, [call |-> "begin_paragraph"])
    /\ UNCHANGED <<doc, stack, pc, current_text, output>>

CallEndParagraph ==
    /\ Callable
    /\ visitor' = end_paragraph(visitor)
    /\ calls' = Append(calls, [call |-> "end_paragraph"])
    /\ UNCHANGED <<doc, stack, pc, current_text, output>>

CallBeginLink ==
    \E link \in CallLinks :
        /\ Callable
        /\ visitor' = begin_link(visitor, link)
        /\ calls' = Append(calls, [call |-> "begin_link", link |-> link])
        /\ UNCHANGED <<doc, stack, pc, current_text, output>>

CallEndLink ==
    \E link \in CallLinks :
        /\ Callable
        /\ visitor' = end_link(visitor, link)
        /\ calls' = Append(calls, [call |-> "end_link", link |-> link])
        /\ UNCHANGED <<doc, stack, pc, current_text, output>>

CallFinalize ==
    /\ pc = "start"
    /\ output' = Some(finalize(visitor))
    /\ calls' = Append(calls, [call |-> "finalize"])
    /\ pc' = "done"
    /\ UNCHANGED <<doc, stack, current_text, visitor>>

NextCalls ==
    \/ CallText
    \/ CallNewLine
    \/ CallBeginParagraph
    \/ CallEndParagraph
    \/ CallBeginLink
    \/ CallEndLink
    \/ CallFinalize

SpecCalls == Init /\ [][NextCalls]_vars

----------------------------------------------------------------------------
(* The classification of a elements: documents of p elements, text nodes  *)
(* and one a element, the first node of the document or of its first      *)
(* element, whose class and href attributes range over the cases          *)
(* parse_href tells apart.                                                *)

\* The href attribute: missing, empty, URLs the url crate parses, and strings
\* it rejects (a relative reference, free text).
Hrefs ==
    { None, Some(""),
      Some("https://dice.camp/tags/ttrpg"),
      Some("https://mastodon.org.uk/@cybette"),
      Some("https://mastodon.org.uk/users/cybette"),
      Some("https://example.com/about"),
      Some("https://example.com"),
      Some("https://dice.camp/tags/"),
      Some("unix:/run/foo.socket"),
      Some("mailto:cybette@mastodon.org.uk"),
      Some("/tags/ttrpg"),
      Some("not a url") }

\* The class attribute: missing, empty, one word, several words separated by
\* one space, by two spaces or by a tab.
Classes ==
    { None, Some(<<>>),
      Some(<<"hashtag">>),
      Some(<<"mention">>),
      Some(<<"mention", " ", "hashtag">>),
      Some(<<"u-url", " ", "mention">>),
      Some(<<"mention", " ", " ", "u-url">>),
      Some(<<"hashtag", "\t", "u-url">>),
      Some(<<"hashtags">>),
      Some(<<"u-url">>) }

Anchors == {Element("a", class, href) : class \in Classes, href \in Hrefs}

\* visit() is called with the a element of the document.
VisitAnchor ==
    \E node \in Anchors :
        /\ pc = "visit" /\ stack # <<>> /\ Len(doc) <= 2
        /\ \A n \in 1..Len(doc) : doc[n].node.name # "a"
        /\ VisitLinkNode(node)

\* visit() is called with the document: the Children arm.
VisitDocument == pc = "start" /\ VisitChildren

NextClassify ==
    \/ VisitDocument
    \/ EndChildren
    \/ VisitText
    \/ VisitParagraph
    \/ EndParagraph
    \/ VisitAnchor
    \/ EndLink
    \/ Finalize

SpecClassify == Init /\ [][NextClassify]_vars

----------------------------------------------------------------------------
(* The classification of span elements: documents of p elements, text     *)
(* nodes and one span element whose class attribute ranges over the cases *)
(* find_visit_kind_element tells apart and over strings that hold the     *)
(* same classes in another way.                                           *)

\* The class attribute of the span: missing, empty, one class, a class
\* repeated, two classes, a class after or before a space, another word.
SpanClasses ==
    { None, Some(<<>>),
      Some(<<"invisible">>),
      Some(<<"ellipsis">>),
      Some(<<"invisible", " ", "invisible">>),
      Some(<<"ellipsis", " ", "ellipsis">>),
      Some(<<"invisible", " ", "ellipsis">>),
      Some(<<"invisible", " ", "u-url">>),
      Some(<<" ", "ellipsis">>),
      Some(<<"invisibles">>) }

Spans == {Element("span", class, None) : class \in SpanClasses}

\* visit() is called with the span element of the document: the Nothing arm,
\* or the Children or Ellipsis arm up to visit_children().
VisitSpan ==
    \E node \in Spans :
        /\ pc = "visit" /\ stack # <<>> /\ Len(doc) <= MaxNodes
        /\ \A n \in 1..Len(doc) : doc[n].node.name # "span"
        /\ Enter(node)
        /\ IF find_visit_kind(node).tag = "Nothing"
           THEN UNCHANGED stack
           ELSE Descend(find_visit_kind(node))
        /\ UNCHANGED <<current_text, visitor, calls, output>>

NextSpans ==
    \/ VisitDocument
    \/ EndChildren
    \/ VisitText
    \/ VisitParagraph
    \/ EndParagraph
    \/ VisitSpan
    \/ EndEllipsis
    \/ Finalize

SpecSpans == Init /\ [][NextSpans]_vars

----------------------------------------------------------------------------
(* The document visited so far, as the claims speak of it.  Node n is the  *)
(* n-th node handed to visit(): the numbering is document order.           *)

Kind(n) == find_visit_kind(doc[n].node).tag

Nodes == 1..Len(doc)

RECURSIVE Ancestors(_)
Ancestors(n) ==
    IF doc[n].parent = 0 THEN {}
    ELSE {doc[n].parent} \cup Ancestors(doc[n].parent)

Subtree(n) == {n} \cup {m \in Nodes : n \in Ancestors(m)}

PAncestors(n) == {m \in Ancestors(n) : Kind(m) = "Paragraph"}

AAncestors(n) == {m \in Ancestors(n) : Kind(m) = "Link"}

TextNodes == {n \in Nodes : Kind(n) = "Text"}

\* The letter that text node n contributes.
Letter(n) == doc[n].node.text[1]

\* The members of a set of nodes, in document order.
RECURSIVE InOrder(_)
InOrder(S) ==
    IF S = {} THEN <<>>
    ELSE LET n == CHOOSE x \in S : \A y \in S : x <= y
         IN <<n>> \o InOrder(S \ {n})

\* The p elements that have no p ancestor, in document order.
OutermostPs == InOrder({n \in Nodes : Kind(n) = "Paragraph" /\ PAncestors(n) = {}})

\* The letters of a list of LinkNodes or ParagraphNodes, in order, those of
\* the children of links included; the ellipsis character is no letter.
RECURSIVE Letters(_)
Letters(items) ==
    IF items = <<>> THEN <<>>
    ELSE LET head == items[1]
             own == CASE head.node = "Text" ->
                            SelectSeq(head.text, LAMBDA c : c # EllipsisChar)
                      [] head.node = "Link" -> Letters(head.children)
                      [] OTHER -> <<>>
         IN own \o Letters(Tail(items))

Range(seq) == {seq[i] : i \in 1..Len(seq)}

Increasing(seq) == \A i \in 1..(Len(seq) - 1) : seq[i] < seq[i + 1]

\* What the builder holds: the committed paragraphs, then the open one.
Held == Append(visitor.paragraphs, visitor.current_paragraph)

\* No two neighbours of a list are both Text nodes.
NoAdjacentText(items) ==
    \A i \in 1..(Len(items) - 1) :
        ~(items[i].node = "Text" /\ items[i + 1].node = "Text")

Done == pc = "done"

Result == unwrap(output)

\* How many nodes of a list have the given tag, the children of links included.
RECURSIVE Count(_, _)
Count(items, tag) ==
    IF items = <<>> THEN 0
    ELSE LET head == items[1]
         IN (IF head.node = tag THEN 1 ELSE 0)
            + (IF head.node = "Link" THEN Count(head.children, tag) ELSE 0)
            + Count(Tail(items), tag)

\* The nodes of the given kind among a set of nodes.
OfKind(S, kind) == {n \in S : Kind(n) = kind}

LettersOf(S) == {Letter(n) : n \in S \cap TextNodes}

----------------------------------------------------------------------------
(* Claims *)

\* C1: the output of parse_content has no two adjacent Text nodes at the same
\* nesting level: in no output paragraph are two consecutive elements both
\* Text, and in no Link's children are two consecutive elements both Text,
\* also when p elements nest inside p elements or a elements inside a elements.
C1_NoAdjacentTextNodes ==
    Done =>
        \A k \in 1..Len(Result) :
            /\ NoAdjacentText(Result[k])
            /\ \A i \in 1..Len(Result[k]) :
                Result[k][i].node = "Link" => NoAdjacentText(Result[k][i].children)

\* C2: content outside a paragraph is never propagated into the output: every
\* node of the k-th output paragraph comes from a source node inside the k-th
\* outermost p element; an a element without p ancestor contributes nothing.
C2_NothingFromOutsideTheParagraph ==
    Done =>
        \A k \in 1..Len(Result) :
            /\ k <= Len(OutermostPs)
            /\ LET inside == Subtree(OutermostPs[k])
               IN /\ Range(Letters(Result[k])) \subseteq LettersOf(inside)
                  /\ Count(Result[k], "Link") <= Cardinality(OfKind(inside, "Link"))
                  /\ Count(Result[k], "NewLine")
                        <= Cardinality(OfKind(inside, "NewLine"))

\* C3: a text node or br element that has no p ancestor produces no Text or
\* NewLine node anywhere in what the builder holds or returns, neither as a
\* ParagraphNode nor as a LinkNode.
C3_NoTextOrNewLineFromOutsideParagraphs ==
    LET lists == Held \o <<visitor.current_link>>
                      \o (IF Done THEN Result ELSE <<>>)
        inP == {n \in Nodes : PAncestors(n) # {}}
        held == [k \in 1..(Len(Held) + 1) |-> Count(lists[k], "NewLine")]
        total == IF Len(held) = 0 THEN 0
                 ELSE LET sum[k \in 0..Len(held)] ==
                              IF k = 0 THEN 0 ELSE sum[k - 1] + held[k]
                      IN sum[Len(held)]
    IN /\ \A k \in 1..Len(lists) : Range(Letters(lists[k])) \subseteq LettersOf(inP)
       /\ total <= Cardinality(OfKind(inP, "NewLine"))

\* C3's case: a text node and a br element without p ancestor were visited,
\* and the output still holds a paragraph with content.
C3_Witness ==
    /\ Done
    /\ \E n \in TextNodes : PAncestors(n) = {}
    /\ \E n \in OfKind(Nodes, "NewLine") : PAncestors(n) = {}
    /\ \E k \in 1..Len(Result) : Result[k] # <<>>

\* The contexts left open by the first i calls: the begin calls not yet ended,
\* innermost last; ok is false once an end call did not close the innermost
\* open context, with the same LinkKind for a link.
RECURSIVE Nesting(_)
Nesting(i) ==
    IF i = 0 THEN [ok |-> TRUE, open |-> <<>>]
    ELSE LET before == Nesting(i - 1)
             c == calls[i]
             depth == Len(before.open)
             innermost == before.open[depth]
         IN CASE c.call \in {"begin_paragraph", "begin_link"} ->
                    [before EXCEPT !.open = Append(@, c)]
              [] c.call = "end_paragraph" ->
                    [ok |-> /\ before.ok
                            /\ depth > 0
                            /\ innermost.call = "begin_paragraph",
                     open |-> SubSeq(before.open, 1, depth - 1)]
              [] c.call = "end_link" ->
                    [ok |-> /\ before.ok
                            /\ depth > 0
                            /\ innermost.call = "begin_link"
                            /\ innermost.link = c.link,
                     open |-> SubSeq(before.open, 1, depth - 1)]
              [] OTHER -> before

\* The begin call that visiting a p or a element makes.
BeginCall(n) ==
    IF Kind(n) = "Paragraph" THEN [call |-> "begin_paragraph"]
    ELSE [call |-> "begin_link", link |-> find_visit_kind(doc[n].node).link]

Boundaries == OfKind(Nodes, "Paragraph") \cup OfKind(Nodes, "Link")

\* C4: the notifications delivered by visit_content are properly nested and
\* in depth-first document order: an end call never comes without an open
\* begin, it closes the most recently opened unclosed context, end_link carries
\* the LinkKind of its begin_link, the begin calls are those of the p and a
\* elements in document order, the open contexts are the open elements, and at
\* the end every begin has been closed.
C4_NotificationsProperlyNested ==
    LET nesting == Nesting(Len(calls))
        begins == SelectSeq(calls,
                      LAMBDA c : c.call \in {"begin_paragraph", "begin_link"})
        visited == InOrder(Boundaries)
        opened == SelectSeq(stack,
                      LAMBDA f : f.kind.tag \in {"Paragraph", "Link"})
    IN /\ nesting.ok
       /\ begins = [k \in 1..Len(visited) |-> BeginCall(visited[k])]
       /\ nesting.open = [k \in 1..Len(opened) |-> BeginCall(opened[k].node)]
       /\ Done => nesting.open = <<>>

\* C4's case: a traversal that ended after a hashtag link nested in another
\* context and a plain link.
C4_Witness ==
    /\ Done
    /\ \E i, j \in 1..Len(calls) :
        /\ i < j
        /\ calls[i].call \in {"begin_paragraph", "begin_link"}
        /\ calls[j].call = "end_link"
        /\ calls[j].link.variant = "Hashtag"
        /\ Nesting(j - 1).open # <<calls[i]>>
        /\ Len(Nesting(j).open) = 1
    /\ \E i \in 1..Len(calls) :
        calls[i].call = "end_link" /\ calls[i].link.variant = "Link"

HasFinalize(log) == \E i \in 1..Len(log) : log[i].call = "finalize"

\* C5: finalize is called exactly once in a run of visit_content, it is the
\* last call made on the visitor, and text pending at the end of the traversal
\* is delivered by text() just before it.
C5_FinalizeOnceLastAfterFlush ==
    /\ [](/\ Cardinality({i \in 1..Len(calls) : calls[i].call = "finalize"})
                = (IF Done THEN 1 ELSE 0)
          /\ HasFinalize(calls) => calls[Len(calls)].call = "finalize"
          /\ Done <=> output # None
          /\ Done => current_text = <<>>)
    /\ [][/\ HasFinalize(calls) => calls' = calls
          /\ (~HasFinalize(calls) /\ HasFinalize(calls')) =>
                /\ stack = <<>> /\ pc = "visit"
                /\ calls' = calls
                      \o (IF current_text = <<>> THEN <<>>
                          ELSE <<[call |-> "text", text |-> current_text]>>)
                      \o <<[call |-> "finalize"]>>]_vars

\* C5's case: the traversal ended with text pending, and finalize was called.
C5_Witness ==
    /\ Done
    /\ Len(calls) >= 2
    /\ calls[Len(calls) - 1].call = "text"
    /\ calls[Len(calls)].call = "finalize"

\* C6: whenever new_line, begin_paragraph, end_paragraph, begin_link, end_link
\* or finalize is delivered, the text accumulated since the previous
\* notification has been delivered by exactly one text() call immediately
\* before it (none if there was no text) and the buffer is empty; text() is
\* never called with an empty string; between notifications text only
\* accumulates.
C6_FlushBeforeEveryBoundary ==
    /\ [](\A i \in 1..Len(calls) :
            calls[i].call = "text" =>
                /\ calls[i].text # <<>>
                /\ i < Len(calls)
                /\ calls[i + 1].call # "text")
    /\ [][IF calls' = calls
          THEN /\ Len(current_text') >= Len(current_text)
               /\ SubSeq(current_text', 1, Len(current_text)) = current_text
          ELSE /\ current_text' = <<>>
               /\ Len(calls') = Len(calls) + (IF current_text = <<>> THEN 1 ELSE 2)
               /\ SubSeq(calls', 1, Len(calls)) = calls
               /\ current_text # <<>> =>
                    calls'[Len(calls) + 1] = [call |-> "text", text |-> current_text]
               /\ calls'[Len(calls')].call \in
                    {"new_line", "begin_paragraph", "end_paragraph",
                     "begin_link", "end_link", "finalize"}]_vars

\* C6's case: text was pending at a line break and at the end of a link, and
\* each time one text() call delivered it; no text was pending at the begin
\* of the link, and begin_link followed new_line directly.
C6_Witness ==
    \E i, k \in 1..Len(calls) :
        /\ i + 2 < k /\ k < Len(calls)
        /\ calls[i].call = "text" /\ calls[i + 1].call = "new_line"
        /\ calls[i + 2].call = "begin_link"
        /\ calls[k].call = "text" /\ calls[k + 1].call = "end_link"

\* The node a letter comes from.
NodeOf(letter) == letter - 95

\* C7: parse_content returns exactly one paragraph per outermost p element, in
\* document order, an empty paragraph for an empty p element; the content of
\* a p element nested inside another p element is in the paragraph of the
\* enclosing outermost p element.
C7_OneParagraphPerOutermostP ==
    Done =>
        /\ Len(Result) = Len(OutermostPs)
        /\ \A k \in 1..Len(OutermostPs) :
            LET p == OutermostPs[k]
                nested == {q \in OfKind(Subtree(p), "Paragraph") : q # p}
            IN /\ Subtree(p) = {p} => Result[k] = <<>>
               /\ \A t \in TextNodes :
                    PAncestors(t) \cap nested # {} =>
                        Letter(t) \in Range(Letters(Result[k]))

\* The LinkKind an a element was classified as.
LinkOf(n) == find_visit_kind(doc[n].node).link

\* The a elements without a ancestor whose visit has returned, in document order.
ClosedOutermostAs ==
    InOrder({n \in OfKind(Nodes, "Link") :
                /\ AAncestors(n) = {}
                /\ \A i \in 1..Len(stack) : stack[i].node # n})

\* The Link nodes of a list of paragraphs, in order.
RECURSIVE LinksOf(_)
LinksOf(lists) ==
    IF lists = <<>> THEN <<>>
    ELSE SelectSeq(lists[1], LAMBDA item : item.node = "Link")
            \o LinksOf(Tail(lists))

\* The document is a p element holding a text node, an a element and a text node.
IsTextLinkText ==
    /\ Len(doc) = 5
    /\ [n \in 1..5 |-> doc[n].parent] = <<0, 1, 2, 2, 2>>
    /\ [n \in 1..5 |-> Kind(n)] = <<"Children", "Paragraph", "Text", "Link", "Text">>

\* C8: within a paragraph the ParagraphNodes are in source order: a p element
\* holding text, an a element, text gives exactly [Text, Link, Text]; the
\* letters of every paragraph and of every link are in document order; the
\* Link nodes are those of the a elements in document order, and each stands
\* after all content that precedes its a element and before all that follows.
C8_SourceOrderPreserved ==
    LET links == LinksOf(Held) IN
    /\ \A k \in 1..Len(Held) : Increasing(Letters(Held[k]))
    /\ Increasing(Letters(visitor.current_link))
    /\ [i \in 1..Len(links) |-> links[i].kind]
            = [i \in 1..Len(ClosedOutermostAs) |-> LinkOf(ClosedOutermostAs[i])]
    /\ \A k \in 1..Len(Held) : \A i \in 1..Len(Held[k]) :
        Held[k][i].node = "Link" =>
            LET before == Len(LinksOf(SubSeq(Held, 1, k - 1)))
                            + Len(LinksOf(<<SubSeq(Held[k], 1, i)>>))
                a == ClosedOutermostAs[before]
            IN /\ \A c \in Range(Letters(SubSeq(Held[k], 1, i - 1))) : NodeOf(c) < a
               /\ \A c \in Range(Letters(SubSeq(Held[k], i, Len(Held[k])))) :
                    NodeOf(c) > a
    /\ (Done /\ IsTextLinkText) =>
            Result = << << Text(doc[3].node.text),
                           LinkNode(LinkOf(4), <<>>),
                           Text(doc[5].node.text) >> >>

\* C8's case: the paragraph [text, link, text] was returned.
C8_Witness ==
    /\ Done /\ IsTextLinkText
    /\ Len(Result) = 1 /\ Len(Result[1]) = 3
    /\ Result[1][2].node = "Link"

\* The NewLine nodes of the k-th paragraph, not counting those inside links,
\* are those of the br elements brs, in order, and each stands between the
\* content before its br element and the content after it.
NewLinesPlaced(k, brs) ==
    LET paragraph == Result[k]
        at == SelectSeq([i \in 1..Len(paragraph) |-> i],
                        LAMBDA i : paragraph[i].node = "NewLine")
        sources == InOrder(brs)
    IN /\ Len(at) = Len(sources)
       /\ \A j \in 1..Len(at) : \A i \in 1..Len(paragraph) :
            \A c \in Range(Letters(<<paragraph[i]>>)) :
                /\ i < at[j] => NodeOf(c) < sources[j]
                /\ i > at[j] => NodeOf(c) > sources[j]

\* C9 as stated: every br element inside a paragraph gives a
\* ParagraphNode::NewLine between the text before it and the text after it.
C9_BrGivesParagraphNewLine ==
    Done =>
        \A k \in 1..Len(OutermostPs) :
            NewLinesPlaced(k, OfKind(Subtree(OutermostPs[k]), "NewLine"))

\* C9, amended: a br element inside a paragraph and inside no a element gives
\* a ParagraphNode::NewLine between the text before it and the text after
\* it, and these are the only ParagraphNode::NewLine of the paragraph.
C9_BrOutsideLinksGivesParagraphNewLine ==
    Done =>
        \A k \in 1..Len(OutermostPs) :
            NewLinesPlaced(k, {b \in OfKind(Subtree(OutermostPs[k]), "NewLine") :
                                  AAncestors(b) = {}})

\* C9's case: a br element between two text nodes of a paragraph, and the
\* paragraph [Text, NewLine, Text] was returned.
C9_Witness ==
    /\ Done
    /\ \E k \in 1..Len(Result) : \E i \in 1..(Len(Result[k]) - 2) :
        /\ Result[k][i].node = "Text"
        /\ Result[k][i + 1].node = "NewLine"
        /\ Result[k][i + 2].node = "Text"

\* The strings of the Text nodes of a list, those of the children of links
\* included.
RECURSIVE TextsOf(_)
TextsOf(items) ==
    IF items = <<>> THEN <<>>
    ELSE LET head == items[1]
             own == CASE head.node = "Text" -> <<head.text>>
                      [] head.node = "Link" -> TextsOf(head.children)
                      [] OTHER -> <<>>
         IN own \o TextsOf(Tail(items))

RECURSIVE Flatten(_)
Flatten(lists) == IF lists = <<>> THEN <<>> ELSE lists[1] \o Flatten(Tail(lists))

\* Text nodes t1 before t2 of one paragraph with nothing but transparent
\* wrappers between them: no p, a or br element begins or ends between them.
Mergeable(t1, t2) ==
    /\ t1 \in TextNodes /\ t2 \in TextNodes /\ t1 < t2
    /\ PAncestors(t1) # {}
    /\ \A m \in (t1 + 1)..(t2 - 1) : Kind(m) \notin {"Paragraph", "Link", "NewLine"}
    /\ (PAncestors(t1) \cup AAncestors(t1)) \subseteq Ancestors(t2)

\* Exactly one of the strings holds the letter of t1, and it holds the letter
\* of t2 too.
InOneString(strings, t1, t2) ==
    /\ Cardinality({i \in 1..Len(strings) : Letter(t1) \in Range(strings[i])}) = 1
    /\ \A i \in 1..Len(strings) :
        Letter(t1) \in Range(strings[i]) => Letter(t2) \in Range(strings[i])

Delivered ==
    LET delivered == SelectSeq(calls, LAMBDA c : c.call = "text")
    IN [i \in 1..Len(delivered) |-> delivered[i].text]

\* The ellipsis spans whose visit has returned.
ClosedEllipses ==
    {e \in OfKind(Nodes, "Ellipsis") : \A i \in 1..Len(stack) : stack[i].node # e}

\* An ellipsis span that wraps visible text and nothing that flushes it.
WrapsText(e) ==
    /\ Kind(e) = "Ellipsis"
    /\ \A m \in Subtree(e) : Kind(m) \notin {"Paragraph", "Link", "NewLine"}
    /\ Subtree(e) \cap TextNodes # {}

LastText(e) == CHOOSE t \in Subtree(e) \cap TextNodes :
                    \A u \in Subtree(e) \cap TextNodes : u <= t

\* One of the strings holds the letter of t directly followed by '…'.
EllipsisFollows(strings, t) ==
    \E i \in 1..Len(strings) : \E j \in 1..(Len(strings[i]) - 1) :
        strings[i][j] = Letter(t) /\ strings[i][j + 1] = EllipsisChar

\* The document is a p element holding an ellipsis span holding a text node.
IsEllipsisParagraph ==
    /\ Len(doc) = 4
    /\ [n \in 1..4 |-> doc[n].parent] = <<0, 1, 2, 3>>
    /\ [n \in 1..4 |-> Kind(n)] = <<"Children", "Paragraph", "Ellipsis", "Text">>

\* C11: an ellipsis span that wraps visible text gives one Text node, the
\* visible text with '…' appended: the character is pushed once, when the
\* children have been visited, without any call on the visitor, and so joins
\* the text that follows up to the next structural boundary.
C11_EllipsisAppendedNotFlushed ==
    /\ [](LET chars == Flatten(Delivered) \o current_text
          IN Len(SelectSeq(chars, LAMBDA c : c = EllipsisChar))
                = Cardinality(ClosedEllipses))
    /\ [][(stack # <<>> /\ Top.kind.tag = "Ellipsis" /\ stack' # stack
                /\ Len(stack') < Len(stack)) =>
            /\ current_text' = Append(current_text, EllipsisChar)
            /\ calls' = calls /\ visitor' = visitor]_vars
    /\ [](Done =>
            /\ \A e \in Nodes : WrapsText(e) =>
                /\ EllipsisFollows(Delivered, LastText(e))
                /\ PAncestors(e) # {} =>
                    EllipsisFollows(TextsOf(Flatten(Held) \o visitor.current_link),
                                    LastText(e))
                /\ \A t \in TextNodes : Mergeable(LastText(e), t) =>
                    /\ InOneString(Delivered, LastText(e), t)
                    /\ InOneString(TextsOf(Flatten(Held) \o visitor.current_link),
                                   LastText(e), t)
            /\ IsEllipsisParagraph =>
                Result = << << Text(<<Letter(4), EllipsisChar>>) >> >>)

\* C11's case: an ellipsis span with text, followed by text in the same
\* paragraph, returned as one Text node: the text, '…', the following text.
C11_Witness ==
    /\ Done
    /\ \E e \in Nodes : \E t \in TextNodes :
        /\ WrapsText(e)
        /\ Mergeable(LastText(e), t)
        /\ Result = << << Text(<<Letter(LastText(e)), EllipsisChar, Letter(t)>>) >> >>

----------------------------------------------------------------------------
(* The classification of a elements *)

AnchorNodes == {n \in Nodes : doc[n].node.name = "a"}

\* The link kinds begin_link was called with.
BegunLinks ==
    {calls[i].link : i \in {j \in 1..Len(calls) : calls[j].call = "begin_link"}}

\* The link kinds of the Link nodes returned.
ReturnedLinks ==
    LET links == LinksOf(Result) IN {links[i].kind : i \in 1..Len(links)}

\* The class attribute, when present, has the word between single spaces.
HasWord(class, word) ==
    /\ class # None
    /\ \E i \in 1..Len(unwrap(class)) :
        /\ unwrap(class)[i] = word
        /\ i = 1 \/ unwrap(class)[i - 1] = " "
        /\ i = Len(unwrap(class)) \/ unwrap(class)[i + 1] = " "

\* The href attribute as the link kinds carry it.
HrefOf(n) == IF doc[n].node.href = None THEN "" ELSE unwrap(doc[n].node.href)

UrlOf(n) == UrlParse(HrefOf(n))

\* The URL parses and has at least one path segment.
HasSegment(n) ==
    /\ UrlOf(n).ok
    /\ UrlOf(n).segments # None
    /\ Len(unwrap(UrlOf(n).segments)) >= 1

LastSegment(n) == unwrap(UrlOf(n).segments)[Len(unwrap(UrlOf(n).segments))]

\* begin_link was called with this kind, and the Link node returned for an a
\* element inside a p element has it.
ClassifiedAs(n, kind) ==
    /\ BegunLinks = {kind}
    /\ (Done /\ PAncestors(n) # {}) => ReturnedLinks = {kind}

\* C12: an a element whose class set, the class attribute split on single
\* spaces, holds neither "hashtag" nor "mention" is a plain Link with the
\* href, whatever the href is.
C12_NoMarkerClassGivesLink ==
    \A n \in AnchorNodes :
        (~HasWord(doc[n].node.class, "hashtag")
            /\ ~HasWord(doc[n].node.class, "mention"))
        => ClassifiedAs(n, Link(HrefOf(n)))

\* C12's case: an a element of class "u-url" whose href is a profile URL, in
\* a p element, returned as a plain Link.
C12_Witness ==
    /\ Done
    /\ \E n \in AnchorNodes :
        /\ doc[n].node.class = Some(<<"u-url">>)
        /\ HrefOf(n) = "https://mastodon.org.uk/@cybette"
        /\ PAncestors(n) # {}
        /\ ReturnedLinks = {Link("https://mastodon.org.uk/@cybette")}

\* C13: an a element whose class set holds "hashtag" and whose href parses
\* as a URL with at least one path segment is a Hashtag with the href and,
\* as tag, the last path segment.
C13_HashtagTagIsLastSegment ==
    \A n \in AnchorNodes :
        (HasWord(doc[n].node.class, "hashtag") /\ HasSegment(n))
        => ClassifiedAs(n, Hashtag(HrefOf(n), LastSegment(n)))

\* C13's case: a hashtag link to /tags/ttrpg in a p element, returned as
\* Hashtag with the tag ttrpg.
C13_Witness ==
    /\ Done
    /\ \E n \in AnchorNodes :
        /\ HasWord(doc[n].node.class, "hashtag")
        /\ PAncestors(n) # {}
        /\ ReturnedLinks = {Hashtag("https://dice.camp/tags/ttrpg", <<"ttrpg">>)}

\* C14: an a element whose class set holds "mention" and not "hashtag": when
\* the href parses as a URL with a host and at least one path segment it is a
\* Mention with the href, the host and, as user, the last path segment; when
\* the URL has no host or no path segment it is a plain Link with the href.
C14_MentionNeedsHostAndSegment ==
    \A n \in AnchorNodes :
        (HasWord(doc[n].node.class, "mention")
            /\ ~HasWord(doc[n].node.class, "hashtag") /\ UrlOf(n).ok)
        => IF UrlOf(n).host # None /\ HasSegment(n)
           THEN ClassifiedAs(n, Mention(HrefOf(n), unwrap(UrlOf(n).host),
                                        LastSegment(n)))
           ELSE ClassifiedAs(n, Link(HrefOf(n)))

\* C14's case: a mention link whose URL has path segments and no host,
\* returned as a plain Link.
C14_Witness ==
    /\ Done
    /\ \E n \in AnchorNodes :
        /\ HasWord(doc[n].node.class, "mention")
        /\ UrlOf(n).ok /\ UrlOf(n).host = None /\ HasSegment(n)
        /\ PAncestors(n) # {}
        /\ ReturnedLinks = {Link(HrefOf(n))}

\* The URL parses and its path holds no name: no segments, or empty ones only.
NoPathSegments(n) ==
    /\ UrlOf(n).ok
    /\ \/ UrlOf(n).segments = None
       \/ \A i \in 1..Len(unwrap(UrlOf(n).segments)) :
            unwrap(UrlOf(n).segments)[i] = <<>>

\* C15: an a element of class "hashtag" whose href has no path segments, as
\* https://example.com, is a plain Link with the href: no Hashtag with an
\* empty tag is ever made.
C15_NoHashtagWithEmptyTag ==
    /\ \A n \in AnchorNodes :
        (HasWord(doc[n].node.class, "hashtag") /\ NoPathSegments(n))
        => ClassifiedAs(n, Link(HrefOf(n)))
    /\ \A kind \in BegunLinks : kind.variant = "Hashtag" => kind.tag # <<>>

\* C16: every Mention made has a user that starts with "@" and a host that
\* does not.
C16_MentionUserHasAtPrefix ==
    \A kind \in BegunLinks :
        kind.variant = "Mention" =>
            /\ kind.user # <<>> /\ kind.user[1] = "@"
            /\ kind.host # <<>> /\ kind.host[1] # "@"

\* The letters of the Text nodes among the children of a Link node.
ChildLetters(link) == Range(Flatten(TextsOf(link.children)))

\* C17: classification never fails. A missing href is read as the empty
\* string and a missing class as the empty class; an href the url crate
\* rejects gives a plain Link with the href for every class set; and the
\* traversal goes on with the children of the element and the nodes after it:
\* it is never stuck, every text node visited is delivered or buffered, the
\* text inside the element is returned as children of the Link node.
C17_ClassificationNeverFails ==
    /\ \A n \in AnchorNodes :
        /\ ~UrlOf(n).ok => ClassifiedAs(n, Link(HrefOf(n)))
        /\ doc[n].node.href = None => ClassifiedAs(n, Link(""))
        /\ doc[n].node.class = None => ClassifiedAs(n, Link(HrefOf(n)))
        /\ (Done /\ ~UrlOf(n).ok /\ PAncestors(n) # {}) =>
            \E i \in 1..Len(LinksOf(Result)) :
                ChildLetters(LinksOf(Result)[i]) = LettersOf(Subtree(n))
    /\ LettersOf(Nodes) = Range(Flatten(Delivered) \o current_text)
    /\ Done \/ ENABLED NextClassify
    /\ Done => output # None

\* C17's case: a hashtag link whose href is no URL, holding text and followed
\* by text in a p element, returned as a plain Link with its text, then the
\* text after it.
C17_Witness ==
    /\ Done
    /\ Len(doc) = 5
    /\ doc[3].node = Element("a", Some(<<"hashtag">>), Some("not a url"))
    /\ Kind(4) = "Text" /\ Kind(5) = "Text"
    /\ Result = << << LinkNode(Link("not a url"), <<Text(<<Letter(4)>>)>>),
                      Text(<<Letter(5)>>) >> >>

----------------------------------------------------------------------------
(* Termination *)

\* The letters delivered or buffered so far, the '…' characters left out.
LettersSeen ==
    SelectSeq(Flatten(Delivered) \o current_text, LAMBDA c : c # EllipsisChar)

CallCount(name) == Len(SelectSeq(calls, LAMBDA c : c.call = name))

\* C19: the traversal of a finite tree terminates: every step visits a new
\* node, returns from one or finalizes, so no node is visited twice (a text
\* node is taken once, a p or a element is begun once); finalize is reached
\* and the output is returned.
C19_TraversalTerminates ==
    /\ <>Done
    /\ [](Done => (output # None /\ stack = <<>> /\ HasFinalize(calls)))
    /\ [][\/ Len(doc') = Len(doc) + 1 /\ Len(stack') >= Len(stack)
          \/ Len(doc') = Len(doc) /\ Len(stack') = Len(stack) - 1
          \/ doc' = doc /\ stack' = stack /\ stack = <<>> /\ ~Done /\ Done']_vars
    /\ [](/\ Len(LettersSeen) = Cardinality(TextNodes)
          /\ Range(LettersSeen) = LettersOf(Nodes)
          /\ CallCount("begin_paragraph") = Cardinality(OfKind(Nodes, "Paragraph"))
          /\ CallCount("begin_link") = Cardinality(OfKind(Nodes, "Link")))

\* C19's case: a document of the largest size, nested to the largest depth,
\* has been traversed and the output returned.
C19_Witness ==
    /\ Done /\ output # None
    /\ Len(doc) = MaxNodes + 1
    /\ \E n \in Nodes : Cardinality(Ancestors(n)) = MaxNodes

----------------------------------------------------------------------------
(* The counters of ParseVisitor *)

\* The call made by the step, when the step is a call.
LastCall == calls'[Len(calls')].call

\* The step changes the counter as the call says: begin adds one, end takes
\* one away unless the counter is zero, any other call leaves it.
CounterStep(before, after, begin, end) ==
    CASE LastCall = begin -> after = before + 1
      [] LastCall = end -> after = (IF before > 0 THEN before - 1 ELSE 0)
      [] OTHER -> after = before

\* C20: whatever the sequence of calls on a ParseVisitor, unmatched end calls
\* included, paragraph_count and link_count never go below zero: a begin call
\* adds exactly one, an end call takes exactly one away when the counter is
\* positive and leaves it at zero when it is zero.
C20_CountersNeverBelowZero ==
    /\ [](visitor.paragraph_count >= 0 /\ visitor.link_count >= 0)
    /\ [][Len(calls') = Len(calls) + 1 =>
            /\ CounterStep(visitor.paragraph_count, visitor'.paragraph_count,
                           "begin_paragraph", "end_paragraph")
            /\ CounterStep(visitor.link_count, visitor'.link_count,
                           "begin_link", "end_link")]_vars

\* C20's case: end_paragraph and end_link called with nothing open, the
\* counters left at zero, and a begin call after them counted as the first.
C20_Witness ==
    /\ Len(calls) = 4
    /\ [i \in 1..4 |-> calls[i].call]
            = <<"end_paragraph", "end_link", "begin_paragraph", "begin_link">>
    /\ visitor.paragraph_count = 1 /\ visitor.link_count = 1

----------------------------------------------------------------------------
(* Nested a elements *)

\* The letters of the text nodes visited inside node n, in document order.
LettersInside(n) ==
    LET texts == InOrder(Subtree(n) \cap TextNodes)
    IN [i \in 1..Len(texts) |-> Letter(texts[i])]

\* C21: for a elements nested in one another within a paragraph the builder
\* makes one Link node, that of the outermost a element: the Link nodes are
\* as many as the outermost a elements returned from, the node of an
\* outermost a element inside a p element has the link kind of that element
\* and, as children, the text and the line breaks of that element and of all
\* a elements inside it in document order; the kind of an inner a element is
\* in the output only when an outermost a element has it.
C21_OneLinkForNestedAs ==
    LET links == LinksOf(Held) IN
    /\ Len(links) = Len(ClosedOutermostAs)
    /\ \A i \in 1..Len(ClosedOutermostAs) :
        LET a == ClosedOutermostAs[i] IN
        PAncestors(a) # {} =>
            /\ links[i].kind = LinkOf(a)
            /\ Letters(links[i].children) = LettersInside(a)
            /\ Count(links[i].children, "NewLine")
                    = Cardinality(OfKind(Subtree(a), "NewLine"))
            /\ \A j \in 1..Len(links[i].children) :
                    links[i].children[j].node \in {"Text", "NewLine"}
    /\ \A m \in OfKind(Nodes, "Link") :
        (AAncestors(m) # {}
            /\ \A o \in OfKind(Nodes, "Link") :
                    AAncestors(o) = {} => LinkOf(o) # LinkOf(m))
        => \A i \in 1..Len(links) : links[i].kind # LinkOf(m)

\* C21's case: a p element holding an a element holding an a element of
\* another kind holding text, returned as one Link node of the outer kind.
C21_Witness ==
    /\ Done
    /\ Len(doc) = 5
    /\ [n \in 1..5 |-> doc[n].parent] = <<0, 1, 2, 3, 4>>
    /\ [n \in 1..5 |-> Kind(n)] = <<"Children", "Paragraph", "Link", "Link", "Text">>
    /\ LinkOf(3) # LinkOf(4)
    /\ Result = << << LinkNode(LinkOf(3), <<Text(<<Letter(5)>>)>>) >> >>

----------------------------------------------------------------------------
(* Invisible spans *)

\* The document is a p element holding text, an invisible span and text.
IsTextInvisibleText ==
    /\ Len(doc) = 5
    /\ [n \in 1..5 |-> doc[n].parent] = <<0, 1, 2, 2, 2>>
    /\ [n \in 1..5 |-> Kind(n)] = <<"Children", "Paragraph", "Text", "Nothing", "Text">>

\* C22: visiting a node classified Nothing (a span of class "invisible")
\* changes nothing of the traversal: the step makes no visitor call and
\* leaves the stack of open visits, the text buffer and the builder alone, no
\* node is visited inside the span, and the text nodes before and after the
\* span in the same parent are delivered in one text() call.
C22_NothingLeavesStateUnchanged ==
    /\ [][(Len(doc') = Len(doc) + 1
                /\ find_visit_kind(doc'[Len(doc')].node).tag = "Nothing")
            => UNCHANGED <<stack, current_text, visitor, calls, output>>]_vars
    /\ [](\A n \in OfKind(Nodes, "Nothing") : Subtree(n) = {n})
    /\ [](Done =>
            /\ \A t1, t2 \in TextNodes :
                (/\ t1 < t2
                 /\ doc[t1].parent = doc[t2].parent
                 /\ t2 > t1 + 1
                 /\ \A m \in (t1 + 1)..(t2 - 1) : Kind(m) = "Nothing")
                => InOneString(Delivered, t1, t2)
            /\ IsTextInvisibleText =>
                Result = << << Text(<<Letter(3), Letter(5)>>) >> >>)

\* C22's case: text, an invisible span and text in a p element, returned as
\* one Text node.
C22_Witness ==
    /\ Done /\ IsTextInvisibleText
    /\ Delivered = << <<Letter(3), Letter(5)>> >>
    /\ Len(Result) = 1 /\ Len(Result[1]) = 1

----------------------------------------------------------------------------
(* The classification of span elements *)

SpanNodes == {n \in Nodes : doc[n].node.name = "span"}

\* The class set: the class attribute, or the empty string when the span has
\* none, split on spaces.
ClassSet(n) == split(unwrap_or(doc[n].node.class, <<>>))

\* C23: a span is classified by its class set: Nothing if and only if the
\* set is exactly {"invisible"}, Ellipsis if and only if it is exactly
\* {"ellipsis"}, Children in every other case, for every class attribute
\* string, those that repeat a class included.
C23_SpanClassifiedByClassSet ==
    \A n \in SpanNodes :
        /\ Kind(n) = "Nothing" <=> ClassSet(n) = {<<"invisible">>}
        /\ Kind(n) = "Ellipsis" <=> ClassSet(n) = {<<"ellipsis">>}
        /\ Kind(n) = "Children" <=>
                ClassSet(n) \notin {{<<"invisible">>}, {<<"ellipsis">>}}

\* C24: when the class set of an a element holds both "hashtag" and
\* "mention" only the hashtag rule is applied: Hashtag when the URL has a
\* last path segment, a plain Link otherwise, and never Mention, also when
\* the URL has a host and a path segment.
C24_HashtagBeforeMention ==
    \A n \in AnchorNodes :
        (HasWord(doc[n].node.class, "hashtag")
            /\ HasWord(doc[n].node.class, "mention"))
        => /\ IF HasSegment(n)
              THEN ClassifiedAs(n, Hashtag(HrefOf(n), LastSegment(n)))
              ELSE ClassifiedAs(n, Link(HrefOf(n)))
           /\ \A kind \in BegunLinks : kind.variant # "Mention"

\* C24's case: an a element of class "mention hashtag" whose href is a
\* profile URL with host and path segment, in a p element, returned as
\* Hashtag.
C24_Witness ==
    /\ Done
    /\ \E n \in AnchorNodes :
        /\ doc[n].node.class = Some(<<"mention", " ", "hashtag">>)
        /\ UrlOf(n).ok /\ UrlOf(n).host # None
        /\ PAncestors(n) # {}
        /\ ReturnedLinks = {Hashtag("https://mastodon.org.uk/@cybette",
                                    <<"@", "cybette">>)}

----------------------------------------------------------------------------
(* The routing of text and line breaks in ParseVisitor *)

\* The node the call made by the step stands for.
LastNode ==
    IF LastCall = "text" THEN Text(calls'[Len(calls')].text) ELSE NewLine

\* The first calls made on the visitor are these.
CallsStart(names) ==
    /\ Len(calls) >= Len(names)
    /\ [i \in 1..Len(names) |-> calls[i].call] = names

\* C25: a text() or new_line() call received while paragraph_count > 0 is
\* appended to exactly one sequence, current_link when link_count > 0 and
\* current_paragraph otherwise, so that content received inside a link in a
\* paragraph is a child of the Link node only; a call received while
\* paragraph_count = 0 leaves the whole builder unchanged.
C25_TextRoutedToOneSequence ==
    /\ [][(Len(calls') = Len(calls) + 1 /\ LastCall \in {"text", "new_line"}) =>
            IF visitor.paragraph_count > 0
            THEN IF visitor.link_count > 0
                 THEN visitor' = [visitor EXCEPT !.current_link = Append(@, LastNode)]
                 ELSE visitor' = [visitor EXCEPT !.current_paragraph = Append(@, LastNode)]
            ELSE visitor' = visitor]_vars
    /\ [](\A kind \in CallLinks :
            (Len(calls) = 5
                /\ CallsStart(<<"begin_paragraph", "begin_link", "text",
                                "new_line", "end_link">>)
                /\ calls[5].link = kind)
            => visitor.current_paragraph
                    = <<LinkNode(kind, <<Text(calls[3].text), NewLine>>)>>)

\* C25's case: text and a line break received inside a link inside a
\* paragraph, held as the children of the Link node and nowhere else.
C25_Witness ==
    /\ Len(calls) = 5
    /\ CallsStart(<<"begin_paragraph", "begin_link", "text", "new_line", "end_link">>)
    /\ Len(visitor.current_paragraph) = 1
    /\ visitor.current_paragraph[1].children = <<Text(calls[3].text), NewLine>>

\* C26: in every state of ParseVisitor, whatever the calls, link_count = 0
\* implies that current_link is empty: an end_link that brings the count to
\* zero moves all of current_link into a ParagraphNode::Link.
C26_NoLinkContentOutsideLinks ==
    /\ [](visitor.link_count = 0 => visitor.current_link = <<>>)
    /\ [][(Len(calls') = Len(calls) + 1 /\ LastCall = "end_link"
                /\ visitor'.link_count = 0) =>
            /\ visitor'.current_link = <<>>
            /\ visitor'.current_paragraph =
                    Append(visitor.current_paragraph,
                           LinkNode(calls'[Len(calls')].link, visitor.current_link))]_vars

\* C26's case: a link that received text has been closed: the count is back
\* at zero, current_link is empty and the text is in the Link node.
C26_Witness ==
    /\ Len(calls) = 4
    /\ CallsStart(<<"begin_paragraph", "begin_link", "text", "end_link">>)
    /\ visitor.link_count = 0 /\ visitor.current_link = <<>>
    /\ visitor.current_paragraph = <<LinkNode(calls[4].link, <<Text(calls[3].text)>>)>>

----------------------------------------------------------------------------
(* The counters of ParseVisitor under visit_content *)

\* The number of open visits of the given kind: the elements begun and not
\* yet ended.
OpenCount(tag) == Cardinality({i \in 1..Len(stack) : stack[i].kind.tag = tag})

\* The step returns from the visit of an element of the given kind.
Ends(tag) ==
    /\ stack # <<>> /\ Top.kind.tag = tag
    /\ Len(stack') = Len(stack) - 1

\* C27: when visit_content drives ParseVisitor, paragraph_count is at every
\* point the number of open p elements and link_count the number of open a
\* elements; both are zero when finalize is called, and an end call always
\* finds its counter positive: the saturating branch is never taken.
C27_CountersMatchOpenElements ==
    /\ [](/\ visitor.paragraph_count = OpenCount("Paragraph")
          /\ visitor.link_count = OpenCount("Link"))
    /\ [](HasFinalize(calls) =>
            visitor.paragraph_count = 0 /\ visitor.link_count = 0)
    /\ [][/\ Ends("Paragraph") =>
                /\ visitor.paragraph_count > 0
                /\ visitor'.paragraph_count = visitor.paragraph_count - 1
          /\ Ends("Link") =>
                /\ visitor.link_count > 0
                /\ visitor'.link_count = visitor.link_count - 1]_vars

\* C27's case: inside an a element inside two p elements the counters are
\* two and one.
C27_Witness ==
    /\ OpenCount("Paragraph") = 2 /\ OpenCount("Link") = 1
    /\ visitor.paragraph_count = 2 /\ visitor.link_count = 1

====
